---- MODULE Spec2Model ----
(***************************************************************************)
(* A model of the APT timeline backend (src/app.py): the in-memory CACHE,  *)
(* the refresh routine run by the startup hook, the periodic refresher and *)
(* POST /refresh, the read handlers, and the pure pipeline                 *)
(* (load_mitre_campaigns_with_groups, build_alias_map, to_timeline_events, *)
(* the /timeline filters and sort).                                        *)
(*                                                                         *)
(* Strings the code lower-cases or compares are sequences of one-character *)
(* strings, so that str.lower() is computed and not assumed.  Dates are    *)
(* <<year, month, day>> triples compared lexicographically, as             *)
(* datetime.date compares.                                                 *)
(***************************************************************************)
EXTENDS Integers, Sequences, FiniteSets, TLC

VARIABLES
    CACHE,      \* the module-level Cache object: fetched_at, groups, campaigns
    pc,         \* per task: its position in refresh_cache / its caller
    local,      \* per task: the locals `groups` and `campaigns` of refresh_cache
    cycleOf,    \* per task: the number of the refresh_cache call it is running (history)
    nextCycle,  \* the number of refresh_cache calls started so far (history)
    pub,        \* which refresh_cache call wrote each field of CACHE (history)
    failed,     \* the refresh_cache calls that raised, each with the fetch
                \* that raised (history)
    clock,      \* the number of timestamps Cache.touch has taken
    seen,       \* what the last read handler read from CACHE
    bundle,     \* the `objects` array handed to load_mitre_campaigns_with_groups
    loaded,     \* the list load_mitre_campaigns_with_groups returned
    alias_map,  \* the dict build_alias_map returned
    request,    \* the query parameters of the last /timeline request
    response    \* the list the last /timeline request returned

vars == <<CACHE, pc, local, cycleOf, nextCycle, pub, failed, clock, seen,
          bundle, loaded, alias_map, request, response>>

\* Python's None where the code expects a str, a list or a date: no string of
\* the model is the one-element sequence <<"None">>.
None == <<"None">>

\* Python's None where the code expects an object (a dict of the feed, a
\* Group, a date string), and the state of a variable nothing has written.
Nothing == [none |-> TRUE]

\* ---------------------------------------------------------------- bounds

\* Longest `objects` array of a graph feed bundle.
MaxObjects == 4

\* Longest actor list (CACHE.groups).
MaxGroups == 2

\* Longest campaign list (CACHE.campaigns).
MaxCampaigns == 2

\* refresh_cache calls in one run of the server.
MaxCycles == 3

\* POST /refresh requests in one run of the server.
MaxForced == 1

\* --------------------------------------------------------------- strings

\* The letters the model's strings use, in their two cases.
LowerLetters == <<"a", "b", "e", "k", "n", "o", "p", "r", "t", "u", "w">>

UpperLetters == <<"A", "B", "E", "K", "N", "O", "P", "R", "T", "U", "W">>

\* str.lower() and str.upper() on one character.
LowerChar(c) ==
    IF \E i \in DOMAIN UpperLetters : UpperLetters[i] = c
    THEN LowerLetters[CHOOSE i \in DOMAIN UpperLetters : UpperLetters[i] = c]
    ELSE c

UpperChar(c) ==
    IF \E i \in DOMAIN LowerLetters : LowerLetters[i] = c
    THEN UpperLetters[CHOOSE i \in DOMAIN LowerLetters : LowerLetters[i] = c]
    ELSE c

\* str.lower()
Lower(s) == [i \in DOMAIN s |-> LowerChar(s[i])]

\* The literal "Unknown" of to_timeline_events.
UNKNOWN == <<"U", "n", "k", "n", "o", "w", "n">>

\* The literal "Unknown Campaign" of load_mitre_campaigns_with_groups.
UNKNOWN_CAMPAIGN == <<"U", "n", "k", "n", "o", "w", "n", " ", "C">>

\* Python truthiness of an Optional[str]: None and "" are falsy.
Truthy(s) == s # None /\ s # <<>>

\* ------------------------------------------------------------ sequences

\* Every sequence over S of length at most n.
SeqsUpTo(S, n) == UNION {[1..k -> S] : k \in 0..n}

Max(S) == CHOOSE x \in S : \A y \in S : y <= x

Min(S) == CHOOSE x \in S : \A y \in S : x <= y

\* ----------------------------------------------------------- graph feed

\* STIX ids are "<type>--<uuid>": the pair <<type, n>>.
CampaignId(n) == <<"campaign", n>>

IntrusionSetId(n) == <<"intrusion-set", n>>

\* str.startswith("campaign--") and str.startswith("intrusion-set--") on an id.
StartsWith(id, prefix) == id[1] = prefix

\* One object of the bundle; a key the object lacks reads as None (dict.get).
StixObject(type, id, name, refs) ==
    [type |-> type, id |-> id, name |-> name, description |-> None,
     first_seen |-> Nothing, last_seen |-> Nothing,
     external_references |-> refs,
     relationship_type |-> "None", source_ref |-> None, target_ref |-> None]

Relationship(kind, src, tgt) ==
    [StixObject("relationship", <<"relationship", 0>>, None, <<>>)
        EXCEPT !.relationship_type = kind, !.source_ref = src, !.target_ref = tgt]

APT == <<"A", "P", "T">>

Bear == <<"B", "e", "a", "r">>

\* A URL is its host followed by its path.
VendorUrl == <<"vendor.example", "report">>

AttackUrl == <<"attack.mitre.org", "campaigns", "C0001">>

\* The objects a bundle of the model is made of.  No object has id
\* IntrusionSetId(3): an edge to it dangles.
FeedObjects ==
    { StixObject("campaign", CampaignId(1), <<"c", "1">>,
                 <<[url |-> VendorUrl], [url |-> None], [url |-> AttackUrl]>>),
      StixObject("campaign", CampaignId(2), None, <<>>),
      StixObject("intrusion-set", IntrusionSetId(1), APT, <<>>),
      StixObject("intrusion-set", IntrusionSetId(2), Bear, <<>>),
      StixObject("intrusion-set", IntrusionSetId(2), None, <<>>),
      StixObject("malware", <<"malware", 1>>, <<"m">>, <<>>),
      Relationship("attributed-to", CampaignId(1), IntrusionSetId(1)),
      Relationship("attributed-to", CampaignId(1), IntrusionSetId(2)),
      Relationship("attributed-to", CampaignId(1), IntrusionSetId(3)),
      Relationship("attributed-to", CampaignId(2), IntrusionSetId(1)),
      Relationship("uses", CampaignId(1), IntrusionSetId(2)),
      Relationship("attributed-to", <<"malware", 1>>, IntrusionSetId(1)) }

\* "attack.mitre.org" in url
IsAttackUrl(url) == \E i \in DOMAIN url : url[i] = "attack.mitre.org"

RECURSIVE _normalize_attack_url(_)
_normalize_attack_url(external_references) ==
    IF external_references = <<>> THEN None
    ELSE LET url == Head(external_references).url
         IN  IF Truthy(url) /\ IsAttackUrl(url) THEN url
             ELSE _normalize_attack_url(Tail(external_references))

\* The keys of the dict built by `d[obj["id"]] = obj` over the objects of one
\* type: a dict keeps the order in which its keys were first inserted.
RECURSIVE DictKeys(_, _)
DictKeys(objects, type) ==
    IF objects = <<>> THEN <<>>
    ELSE LET n    == Len(objects)
             rest == DictKeys(SubSeq(objects, 1, n - 1), type)
             o    == objects[n]
         IN  IF o.type = type /\ ~ \E i \in DOMAIN rest : rest[i] = o.id
             THEN Append(rest, o.id) ELSE rest

\* dict.get(id) on that dict: the last object inserted under the id, or None.
DictGet(objects, type, id) ==
    LET I == {i \in DOMAIN objects : objects[i].type = type /\ objects[i].id = id}
    IN  IF I = {} THEN Nothing ELSE objects[Max(I)]

\* The `relationships` list.
Relationships(objects) == SelectSeq(objects, LAMBDA o : o.type = "relationship")

IsAttribution(rel) ==
    /\ rel.relationship_type = "attributed-to"
    /\ rel.source_ref # None /\ StartsWith(rel.source_ref, "campaign")
    /\ rel.target_ref # None /\ StartsWith(rel.target_ref, "intrusion-set")

RECURSIVE Targets(_)
Targets(rels) ==
    IF rels = <<>> THEN <<>> ELSE <<Head(rels).target_ref>> \o Targets(Tail(rels))

\* campaign_to_intrusions.get(cid, [])
CampaignToIntrusions(objects, cid) ==
    Targets(SelectSeq(Relationships(objects),
                      LAMBDA rel : IsAttribution(rel) /\ rel.source_ref = cid))

\* A variant of IrNames that looks at the first edge only.
IrNames_FirstEdgeOnly(objects, intru_ids) ==
    IF intru_ids = <<>> THEN <<>>
    ELSE LET in_obj == DictGet(objects, "intrusion-set", Head(intru_ids))
         IN  IF in_obj # Nothing /\ Truthy(in_obj.name)
             THEN <<in_obj.name>> ELSE <<>>

\* The `ir_names` list of one campaign.
RECURSIVE IrNames(_, _)
IrNames(objects, intru_ids) ==
    IF intru_ids = <<>> THEN <<>>
    ELSE LET in_obj == DictGet(objects, "intrusion-set", Head(intru_ids))
             rest   == IrNames(objects, Tail(intru_ids))
         IN  IF in_obj # Nothing /\ Truthy(in_obj.name)
             THEN <<in_obj.name>> \o rest ELSE rest

\* ir_names[0] if ir_names else None
PickGroup(ir_names) ==
    IF ir_names # <<>> THEN ir_names[1] ELSE None

RECURSIVE SourceUrls(_)
SourceUrls(ext_refs) ==
    IF ext_refs = <<>> THEN <<>>
    ELSE IF Truthy(Head(ext_refs).url)
         THEN <<Head(ext_refs).url>> \o SourceUrls(Tail(ext_refs))
         ELSE SourceUrls(Tail(ext_refs))

\* The Campaign built for one key of the `campaigns` dict.
Campaign(objects, cid) ==
    LET cobj     == DictGet(objects, "campaign", cid)
        ir_names == IrNames(objects, CampaignToIntrusions(objects, cid))
    IN  [id          |-> cid,
         name        |-> IF cobj.name = None THEN UNKNOWN_CAMPAIGN ELSE cobj.name,
         description |-> cobj.description,
         first_seen  |-> cobj.first_seen,
         last_seen   |-> cobj.last_seen,
         sources     |-> SourceUrls(cobj.external_references),
         group       |-> PickGroup(ir_names),
         mitre_url   |-> _normalize_attack_url(cobj.external_references)]

\* load_mitre_campaigns_with_groups on a fetched bundle.
load_mitre_campaigns_with_groups(objects) ==
    LET keys == DictKeys(objects, "campaign")
    IN  [k \in DOMAIN keys |-> Campaign(objects, keys[k])]

\* ---------------------------------------------------------------- dates

\* A date-or-timestamp string of a feed or of a query parameter:
\* "YYYY-MM-DD" (kind "date"), "YYYY-MM-DDT00:00:00Z" (kind "timestamp"),
\* text that is neither (kind "text"), or "" (kind "empty").  The digits may
\* spell a day no calendar has.
DateStr(ymd) == [kind |-> "date", ymd |-> ymd]

EmptyDate == [kind |-> "empty", ymd |-> None]

\* Python truthiness of an Optional[str] holding a date.
TruthyDate(s) == s # Nothing /\ s # EmptyDate

Timestamp(ymd) == [kind |-> "timestamp", ymd |-> ymd]

Garbage == [kind |-> "text", ymd |-> None]

IsLeap(y) == y % 4 = 0 /\ (y % 100 # 0 \/ y % 400 = 0)

DaysIn(y, m) ==
    IF m \in {4, 6, 9, 11} THEN 30
    ELSE IF m = 2 THEN (IF IsLeap(y) THEN 29 ELSE 28)
    ELSE 31

\* Whether datetime accepts the year, month and day.
ValidYmd(ymd) ==
    /\ ymd[1] \in 1..9999
    /\ ymd[2] \in 1..12
    /\ ymd[3] \in 1..DaysIn(ymd[1], ymd[2])

\* datetime.fromisoformat(s.replace("Z", "+00:00")).date(): the date, or None
\* where it raises.
FromIsoFormat(s) ==
    IF s.kind \in {"date", "timestamp"} /\ ValidYmd(s.ymd) THEN s.ymd ELSE None

\* datetime.strptime(s, "%Y-%m-%d").date(): the date, or None where it raises.
Strptime(s) ==
    IF s.kind = "date" /\ ValidYmd(s.ymd) THEN s.ymd ELSE None

\* date.isoformat()
IsoFormat(ymd) == DateStr(ymd)

_iso(date_str) ==
    IF ~ TruthyDate(date_str) THEN Nothing
    ELSE IF FromIsoFormat(date_str) # None
         THEN IsoFormat(FromIsoFormat(date_str))
         ELSE IF Strptime(date_str) # None
              THEN IsoFormat(Strptime(date_str))
              ELSE Nothing

\* _iso(first_seen) or _iso(last_seen)
_pick_best_date(first_seen, last_seen) ==
    IF _iso(first_seen) # Nothing THEN _iso(first_seen) ELSE _iso(last_seen)

\* datetime.date's order.
DateLT(a, b) ==
    \/ a[1] < b[1]
    \/ a[1] = b[1] /\ a[2] < b[2]
    \/ a[1] = b[1] /\ a[2] = b[2] /\ a[3] < b[3]

\* ----------------------------------------------------- enrichment

\* One step of the loop of build_alias_map: the keys of g written over idx.
RECURSIVE PutAliases(_, _, _)
PutAliases(idx, aliases, g) ==
    IF aliases = <<>> THEN idx
    ELSE PutAliases((Lower(Head(aliases)) :> g) @@ idx, Tail(aliases), g)

\* A variant of build_alias_map in which the first write under a key stays.
RECURSIVE build_alias_map_FirstWins(_)
build_alias_map_FirstWins(groups) ==
    IF groups = <<>> THEN <<>>
    ELSE LET n   == Len(groups)
             g   == groups[n]
             idx == build_alias_map_FirstWins(SubSeq(groups, 1, n - 1))
         IN  idx @@ PutAliases((Lower(g.name) :> g), g.aliases, g)

\* The dict from lower-cased name or alias to Group; a later write replaces
\* an earlier one under the same key.
RECURSIVE build_alias_map(_)
build_alias_map(groups) ==
    IF groups = <<>> THEN <<>>
    ELSE LET n   == Len(groups)
             g   == groups[n]
             idx == build_alias_map(SubSeq(groups, 1, n - 1))
         IN  PutAliases((Lower(g.name) :> g) @@ idx, g.aliases, g)

\* dict.get(key)
AliasGet(idx, key) == IF key \in DOMAIN idx THEN idx[key] ELSE Nothing

\* The TimelineEvent of one campaign.
TimelineEvent(c, idx) ==
    LET gname   == IF Truthy(c.group) THEN c.group ELSE UNKNOWN
        gmatch  == AliasGet(idx, Lower(gname))
        country == IF gmatch # Nothing THEN gmatch.country ELSE None
    IN  [group_name |-> IF gmatch # Nothing THEN gmatch.name ELSE gname,
         country    |-> IF Truthy(country) THEN country ELSE UNKNOWN,
         campaign   |-> c.name,
         date       |-> _pick_best_date(c.first_seen, c.last_seen),
         date_range |-> [first_seen |-> _iso(c.first_seen),
                         last_seen  |-> _iso(c.last_seen)],
         summary    |-> c.description,
         source_url |-> IF c.sources # <<>> THEN c.sources[1] ELSE None,
         mitre_url  |-> c.mitre_url]

to_timeline_events(campaigns, groups) ==
    LET idx == build_alias_map(groups)
    IN  [i \in DOMAIN campaigns |-> TimelineEvent(campaigns[i], idx)]

\* ------------------------------------------------------------ /timeline

\* The limit a request carries when it names none.
DefaultLimit == 500

\* A variant of date_in_range whose lower bound is exclusive.
date_in_range_Exclusive(d, from_date, to_date) ==
    IF ~ TruthyDate(d) THEN TRUE
    ELSE IF Strptime(d) = None THEN TRUE
    ELSE LET dt == Strptime(d)
         IN  /\ ~ ( /\ TruthyDate(from_date)
                    /\ Strptime(from_date) # None
                    /\ ~ DateLT(Strptime(from_date), dt) )
             /\ ~ ( /\ TruthyDate(to_date)
                    /\ Strptime(to_date) # None
                    /\ DateLT(Strptime(to_date), dt) )

\* The closure date_in_range of get_timeline, with the two bounds it reads.
date_in_range(d, from_date, to_date) ==
    IF ~ TruthyDate(d) THEN TRUE
    ELSE IF Strptime(d) = None THEN TRUE
    ELSE LET dt == Strptime(d)
         IN  /\ ~ ( /\ TruthyDate(from_date)
                    /\ Strptime(from_date) # None
                    /\ DateLT(dt, Strptime(from_date)) )
             /\ ~ ( /\ TruthyDate(to_date)
                    /\ Strptime(to_date) # None
                    /\ DateLT(Strptime(to_date), dt) )

\* datetime(1900, 1, 1).date()
Sentinel == <<1900, 1, 1>>

sort_key(ev) ==
    IF ev.date = Nothing THEN Sentinel
    ELSE IF Strptime(ev.date) # None THEN Strptime(ev.date) ELSE Sentinel

\* list.sort(key=sort_key, reverse=reverse): stable, and with reverse the
\* elements of equal key keep their original order too.
RECURSIVE SortEvents(_, _)
SortEvents(events, reverse) ==
    IF events = <<>> THEN <<>>
    ELSE LET n      == Len(events)
             sorted == SortEvents(SubSeq(events, 1, n - 1), reverse)
             e      == events[n]
             GoesBefore(x) == IF reverse THEN DateLT(sort_key(x), sort_key(e))
                                     ELSE DateLT(sort_key(e), sort_key(x))
             k      == Cardinality({i \in DOMAIN sorted : ~ GoesBefore(sorted[i])})
         IN  SubSeq(sorted, 1, k) \o <<e>> \o SubSeq(sorted, k + 1, n - 1)

\* events[:limit]
Truncate(events, limit) ==
    SubSeq(events, 1, IF limit < Len(events) THEN limit ELSE Len(events))

\* The body of get_timeline on the two lists it reads from CACHE.
get_timeline(campaigns, groups, q) ==
    LET events == to_timeline_events(campaigns, groups)
        byGroup ==
            IF Truthy(q.group)
            THEN SelectSeq(events, LAMBDA e : Lower(e.group_name) = Lower(q.group))
            ELSE events
        byCountry ==
            IF Truthy(q.country)
            THEN SelectSeq(byGroup,
                     LAMBDA e : Lower(IF Truthy(e.country) THEN e.country ELSE <<>>)
                                    = Lower(q.country))
            ELSE byGroup
        byDate ==
            SelectSeq(byCountry,
                LAMBDA e : date_in_range(e.date, q.from_date, q.to_date))
    IN  Truncate(SortEvents(byDate, q.sort = "date_desc"), q.limit)

\* ------------------------------------------------------- actor catalog

RU == <<"R", "U">>

MispEntry(value, country, synonyms) ==
    [value |-> value,
     meta  |-> [country |-> country, synonyms |-> synonyms, refs |-> None]]

\* A Group as the model builds it.
Group(name, country, aliases) ==
    [name |-> name, country |-> country, aliases |-> aliases, refs |-> <<>>]

\* load_misp_groups on the fetched `values` array.
RECURSIVE load_misp_groups(_)
load_misp_groups(values) ==
    IF values = <<>> THEN <<>>
    ELSE LET v    == Head(values)
             rest == load_misp_groups(Tail(values))
         IN  IF ~ Truthy(v.value) THEN rest
             ELSE << [name    |-> v.value,
                      country |-> v.meta.country,
                      aliases |-> IF v.meta.synonyms = None THEN <<>>
                                  ELSE v.meta.synonyms,
                      refs    |-> IF v.meta.refs = None THEN <<>>
                                  ELSE v.meta.refs] >> \o rest

\* What the actor-catalog URL serves at one time or another.
FeedValues ==
    { << MispEntry(APT, RU, <<Bear>>), MispEntry(None, RU, None) >>,
      << MispEntry(Bear, None, None) >> }

\* What the graph URL serves at one time or another.
FeedBundles ==
    { << StixObject("campaign", CampaignId(1), <<"c", "1">>, <<>>),
         StixObject("intrusion-set", IntrusionSetId(2), Bear, <<>>),
         Relationship("attributed-to", CampaignId(1), IntrusionSetId(2)),
         StixObject("campaign", CampaignId(2), None, <<>>) >> }

\* ---------------------------------------------------------------- tasks

Startup == <<"on_startup", 0>>

Periodic == <<"periodic_refresher", 0>>

Forced == {<<"force_refresh", i>> : i \in 1..MaxForced}

Tasks == {Startup, Periodic} \cup Forced

\* A task inside refresh_cache.
InFlight == {"fetch_groups", "fetch_campaigns", "publish"}

NoLocals == [groups |-> <<>>, campaigns |-> <<>>]

\* fetched_at is <<>> for None and <<n>> for the n-th timestamp taken.
\* Cache(): nothing fetched yet.
ColdCache == [fetched_at |-> <<>>, groups |-> <<>>, campaigns |-> <<>>]

\* refresh_cache is entered: the client is opened and the first GET is sent.
\* on_startup enters it first; periodic_refresher at the top of its loop;
\* force_refresh when a POST /refresh arrives at the started server.
BeginRefresh(t) ==
    /\ nextCycle < MaxCycles
    /\ \/ t = Startup /\ pc[t] = "start"
       \/ t = Periodic /\ pc[t] = "loop"
       \/ t \in Forced /\ pc[t] = "idle" /\ pc[Startup] = "done"
    /\ nextCycle' = nextCycle + 1
    /\ cycleOf' = [cycleOf EXCEPT ![t] = nextCycle + 1]
    /\ pc' = [pc EXCEPT ![t] = "fetch_groups"]
    /\ UNCHANGED <<CACHE, local, pub, failed, clock, seen,
                   bundle, loaded, alias_map, request, response>>

\* A variant of FetchGroupsOk that assigns CACHE.groups as soon as the actor
\* catalog is fetched.
FetchGroupsOk_WritesCache(t) ==
    /\ pc[t] = "fetch_groups"
    /\ \E values \in FeedValues :
          /\ local' = [local EXCEPT ![t].groups = load_misp_groups(values)]
          /\ CACHE' = [CACHE EXCEPT !.groups = load_misp_groups(values)]
    /\ pub' = [pub EXCEPT !.groups = cycleOf[t]]
    /\ pc' = [pc EXCEPT ![t] = "fetch_campaigns"]
    /\ UNCHANGED <<cycleOf, nextCycle, failed, clock, seen,
                   bundle, loaded, alias_map, request, response>>

\* load_misp_groups returns.
FetchGroupsOk(t) ==
    /\ pc[t] = "fetch_groups"
    /\ \E values \in FeedValues :
          local' = [local EXCEPT ![t].groups = load_misp_groups(values)]
    /\ pc' = [pc EXCEPT ![t] = "fetch_campaigns"]
    /\ UNCHANGED <<CACHE, cycleOf, nextCycle, pub, failed, clock, seen,
                   bundle, loaded, alias_map, request, response>>

\* Where the exception of refresh_cache takes its caller: on_startup lets it
\* out (the server does not start), periodic_refresher prints it and sleeps,
\* force_refresh answers 500.
AfterFailure(t) ==
    IF t = Startup THEN "crashed" ELSE IF t = Periodic THEN "sleep" ELSE "error500"

\* Where the return of refresh_cache takes its caller.
AfterSuccess(t) ==
    IF t = Startup THEN "done" ELSE IF t = Periodic THEN "sleep" ELSE "refreshed"

\* The GET of the actor catalog raises (network, timeout, status, JSON).
FetchGroupsFail(t) ==
    /\ pc[t] = "fetch_groups"
    /\ pc' = [pc EXCEPT ![t] = AfterFailure(t)]
    /\ failed' = failed \cup {<<cycleOf[t], "groups">>}
    /\ local' = [local EXCEPT ![t] = NoLocals]
    /\ UNCHANGED <<CACHE, cycleOf, nextCycle, pub, clock, seen,
                   bundle, loaded, alias_map, request, response>>

\* load_mitre_campaigns_with_groups returns; the client is then closed.
FetchCampaignsOk(t) ==
    /\ pc[t] = "fetch_campaigns"
    /\ \E objects \in FeedBundles :
          local' = [local EXCEPT
                      ![t].campaigns = load_mitre_campaigns_with_groups(objects)]
    /\ pc' = [pc EXCEPT ![t] = "publish"]
    /\ UNCHANGED <<CACHE, cycleOf, nextCycle, pub, failed, clock, seen,
                   bundle, loaded, alias_map, request, response>>

\* The GET of the graph raises.
FetchCampaignsFail(t) ==
    /\ pc[t] = "fetch_campaigns"
    /\ pc' = [pc EXCEPT ![t] = AfterFailure(t)]
    /\ failed' = failed \cup {<<cycleOf[t], "campaigns">>}
    /\ local' = [local EXCEPT ![t] = NoLocals]
    /\ UNCHANGED <<CACHE, cycleOf, nextCycle, pub, clock, seen,
                   bundle, loaded, alias_map, request, response>>

\* A variant of Publish that leaves CACHE.campaigns as it was.
Publish_KeepsCampaigns(t) ==
    /\ pc[t] = "publish"
    /\ clock' = clock + 1
    /\ CACHE' = [CACHE EXCEPT !.fetched_at = <<clock + 1>>,
                              !.groups = local[t].groups]
    /\ pub' = [pub EXCEPT !.fetched_at = cycleOf[t], !.groups = cycleOf[t]]
    /\ local' = [local EXCEPT ![t] = NoLocals]
    /\ pc' = IF t = Startup
             THEN [pc EXCEPT ![t] = "done", ![Periodic] = "loop"]
             ELSE [pc EXCEPT ![t] = AfterSuccess(t)]
    /\ UNCHANGED <<cycleOf, nextCycle, failed, seen,
                   bundle, loaded, alias_map, request, response>>

\* CACHE.groups = groups; CACHE.campaigns = campaigns; CACHE.touch(): three
\* statements with no await among them, so one step of the event loop.
Publish(t) ==
    /\ pc[t] = "publish"
    /\ clock' = clock + 1
    /\ CACHE' = [fetched_at |-> <<clock + 1>>,
                 groups     |-> local[t].groups,
                 campaigns  |-> local[t].campaigns]
    /\ pub' = [fetched_at |-> cycleOf[t],
               groups     |-> cycleOf[t],
               campaigns  |-> cycleOf[t]]
    /\ local' = [local EXCEPT ![t] = NoLocals]
    /\ pc' = IF t = Startup
             THEN [pc EXCEPT ![t] = "done", ![Periodic] = "loop"]
             ELSE [pc EXCEPT ![t] = AfterSuccess(t)]
    /\ UNCHANGED <<cycleOf, nextCycle, failed, seen,
                   bundle, loaded, alias_map, request, response>>

\* asyncio.sleep(REFRESH_INTERVAL_SECONDS) of periodic_refresher returns.
Sleep ==
    /\ pc[Periodic] = "sleep"
    /\ pc' = [pc EXCEPT ![Periodic] = "loop"]
    /\ UNCHANGED <<CACHE, local, cycleOf, nextCycle, pub, failed, clock, seen,
                   bundle, loaded, alias_map, request, response>>

\* ---------------------------------------------------------- read handlers

\* The server answers requests once on_startup has returned.
Serving == pc[Startup] = "done"

\* The number of refresh_cache calls running.
Running == Cardinality({t \in Tasks : pc[t] \in InFlight})

\* GET /health
health ==
    /\ Serving
    /\ seen' = [handler |-> "health",
                body    |-> [fetched_at |-> CACHE.fetched_at,
                             groups     |-> Len(CACHE.groups),
                             campaigns  |-> Len(CACHE.campaigns)],
                cycles  |-> pub]
    /\ UNCHANGED <<CACHE, pc, local, cycleOf, nextCycle, pub, failed, clock,
                   bundle, loaded, alias_map, request, response>>

\* GET /groups
get_groups ==
    /\ Serving
    /\ seen' = [handler |-> "groups",
                body    |-> CACHE.groups,
                cycles  |-> [groups |-> pub.groups]]
    /\ UNCHANGED <<CACHE, pc, local, cycleOf, nextCycle, pub, failed, clock,
                   bundle, loaded, alias_map, request, response>>

\* GET /campaigns
get_campaigns ==
    /\ Serving
    /\ seen' = [handler |-> "campaigns",
                body    |-> CACHE.campaigns,
                cycles  |-> [campaigns |-> pub.campaigns]]
    /\ UNCHANGED <<CACHE, pc, local, cycleOf, nextCycle, pub, failed, clock,
                   bundle, loaded, alias_map, request, response>>

\* A /timeline query: its parameters as FastAPI hands them to get_timeline.
Query(group, country, from_date, to_date, limit, sort) ==
    [group |-> group, country |-> country, from_date |-> from_date,
     to_date |-> to_date, limit |-> limit, sort |-> sort]

\* GET /timeline with the parameters q.
GetTimeline(q) ==
    /\ Serving
    /\ request' = q
    /\ response' = get_timeline(CACHE.campaigns, CACHE.groups, q)
    /\ seen' = [handler |-> "timeline",
                body    |-> Len(response'),
                cycles  |-> [groups |-> pub.groups, campaigns |-> pub.campaigns]]
    /\ UNCHANGED <<CACHE, pc, local, cycleOf, nextCycle, pub, failed, clock,
                   bundle, loaded, alias_map>>

\* ------------------------------------------------ the server: Spec

\* The queries the readers of Spec send.
ServerQueries ==
    { Query(APT, None, Nothing, Nothing, DefaultLimit, "date_desc") }

Init ==
    /\ CACHE = ColdCache
    /\ pc = [t \in Tasks |->
                IF t = Startup THEN "start"
                ELSE IF t = Periodic THEN "unborn" ELSE "idle"]
    /\ local = [t \in Tasks |-> NoLocals]
    /\ cycleOf = [t \in Tasks |-> 0]
    /\ nextCycle = 0
    /\ pub = [fetched_at |-> 0, groups |-> 0, campaigns |-> 0]
    /\ failed = {}
    /\ clock = 0
    /\ seen = Nothing
    /\ bundle = <<>>
    /\ loaded = Nothing
    /\ alias_map = Nothing
    /\ request = Nothing
    /\ response = <<>>

Next ==
    \/ \E t \in Tasks : BeginRefresh(t)
    \/ \E t \in Tasks : FetchGroupsOk(t)
    \/ \E t \in Tasks : FetchGroupsFail(t)
    \/ \E t \in Tasks : FetchCampaignsOk(t)
    \/ \E t \in Tasks : FetchCampaignsFail(t)
    \/ \E t \in Tasks : Publish(t)
    \/ Sleep
    \/ health
    \/ get_groups
    \/ get_campaigns
    \/ \E q \in ServerQueries : GetTimeline(q)

Spec == Init /\ [][Next]_vars

\* C1: whenever a handler reads both lists of CACHE (GET /health and
\* GET /timeline do), the actor list and the campaign list it reads were
\* written by the same refresh_cache call, whatever refreshes run or overlap
\* around the read.
C1_ReaderSeesOneCycle ==
    (seen # Nothing /\ {"groups", "campaigns"} \subseteq DOMAIN seen.cycles)
        => seen.cycles.groups = seen.cycles.campaigns

\* C1's case: GET /timeline has read what the third refresh_cache call (a
\* forced or a periodic one) published, and an earlier call, which that one
\* overlapped, is still running.
C1_Witness ==
    /\ seen # Nothing
    /\ seen.handler = "timeline"
    /\ seen.cycles.groups = 3
    /\ \E t \in Tasks : pc[t] \in InFlight /\ cycleOf[t] < 3

\* C2: a refresh_cache call whose actor-catalog fetch or graph fetch raised
\* has written none of CACHE.groups, CACHE.campaigns and CACHE.fetched_at.
C2_FailedCycleWritesNothing ==
    \A f \in failed :
        /\ pub.groups # f[1]
        /\ pub.campaigns # f[1]
        /\ pub.fetched_at # f[1]

\* C2's case: the graph fetch (the second) of a refresh raised after its
\* actor-catalog fetch had returned, over a warm cache, and so did the
\* actor-catalog fetch of another refresh.
C2_Witness ==
    /\ CACHE.fetched_at # <<>>
    /\ \E f \in failed : f[2] = "campaigns"
    /\ \E f \in failed : f[2] = "groups"

\* C3: at most one refresh_cache call is between its entry and its writes
\* to CACHE at any time.
C3_AtMostOneRefreshInFlight == Running <= 1

\* ------------------------------------- the graph indexer: SpecGraph

\* A server that runs no refresh, whose CACHE holds the two lists.
Quiet(groups, campaigns) ==
    /\ CACHE = [fetched_at |-> <<1>>, groups |-> groups, campaigns |-> campaigns]
    /\ pc = [t \in Tasks |->
                IF t = Startup THEN "done"
                ELSE IF t = Periodic THEN "sleep" ELSE "idle"]
    /\ local = [t \in Tasks |-> NoLocals]
    /\ cycleOf = [t \in Tasks |-> IF t = Startup THEN 1 ELSE 0]
    /\ nextCycle = 1
    /\ pub = [fetched_at |-> 1, groups |-> 1, campaigns |-> 1]
    /\ failed = {}
    /\ clock = 1
    /\ seen = Nothing
    /\ request = Nothing
    /\ response = <<>>

\* The graph URL has served any bundle of at most MaxObjects objects.
InitGraph ==
    /\ Quiet(<<>>, <<>>)
    /\ bundle \in SeqsUpTo(FeedObjects, MaxObjects)
    /\ loaded = Nothing
    /\ alias_map = Nothing

\* load_mitre_campaigns_with_groups indexes the bundle and returns.
LoadBundle ==
    /\ loaded = Nothing
    /\ loaded' = [campaigns |-> load_mitre_campaigns_with_groups(bundle)]
    /\ UNCHANGED <<CACHE, pc, local, cycleOf, nextCycle, pub, failed, clock,
                   seen, bundle, alias_map, request, response>>

NextGraph == LoadBundle

SpecGraph == InitGraph /\ [][NextGraph]_vars

\* The places of the bundle holding an attributed-to edge from campaign cid
\* to an intrusion-set id.
EdgesOf(cid) ==
    {i \in DOMAIN bundle :
        /\ bundle[i].type = "relationship"
        /\ bundle[i].relationship_type = "attributed-to"
        /\ bundle[i].source_ref = cid
        /\ bundle[i].target_ref[1] = "intrusion-set"}

\* The name the intrusion-set table gives the target of the edge at place i;
\* None when the table lacks the target or the target has no name.
TargetName(i) ==
    LET J == {j \in DOMAIN bundle :
                 /\ bundle[j].type = "intrusion-set"
                 /\ bundle[j].id = bundle[i].target_ref}
    IN  IF J = {} THEN None
        ELSE IF bundle[Max(J)].name = <<>> THEN None ELSE bundle[Max(J)].name

\* C5 as amended: the group of a campaign is the name of the target of its
\* first attributed-to edge, in feed order, whose target is in the
\* intrusion-set table with a name; it is None when no edge has such a target.
C5_FirstResolvableEdgeDecides ==
    loaded # Nothing =>
        \A k \in DOMAIN loaded.campaigns :
            LET c == loaded.campaigns[k]
                R == {i \in EdgesOf(c.id) : TargetName(i) # None}
            IN  c.group = IF R = {} THEN None ELSE TargetName(Min(R))

\* C5's case: a campaign whose first edge dangles and whose later edge
\* resolves has been indexed.
C5_Witness ==
    /\ loaded # Nothing
    /\ \E k \in DOMAIN loaded.campaigns :
          LET E == EdgesOf(loaded.campaigns[k].id)
          IN  /\ Cardinality(E) >= 2
              /\ TargetName(Min(E)) = None
              /\ \E i \in E : TargetName(i) # None

\* C5 as claimed: the first attributed-to edge of a campaign alone decides
\* its group; when the target of that edge is missing from the intrusion-set
\* table the group is None, whatever later edges exist.
C5_FirstEdgeDecides ==
    loaded # Nothing =>
        \A k \in DOMAIN loaded.campaigns :
            LET c == loaded.campaigns[k]
                E == EdgesOf(c.id)
            IN  E # {} => c.group = TargetName(Min(E))

\* ------------------------------------- the alias resolver: SpecAlias

\* The actors a catalog of the model is made of.
ActorNames == {APT, Lower(APT), Bear, Lower(Bear)}

ActorAliases == {<<>>, <<Bear>>, <<Lower(Bear), APT>>}

ActorCountries == {None, RU}

Catalog ==
    {Group(n, c, a) : n \in ActorNames, c \in ActorCountries, a \in ActorAliases}

\* CACHE.groups is any list of at most MaxGroups actors.
InitAlias ==
    /\ \E groups \in SeqsUpTo(Catalog, MaxGroups) : Quiet(groups, <<>>)
    /\ bundle = <<>>
    /\ loaded = Nothing
    /\ alias_map = Nothing

\* build_alias_map(groups) returns, as to_timeline_events calls it.
BuildAliasMap ==
    /\ alias_map = Nothing
    /\ alias_map' = [idx |-> build_alias_map(CACHE.groups)]
    /\ UNCHANGED <<CACHE, pc, local, cycleOf, nextCycle, pub, failed, clock,
                   seen, bundle, loaded, request, response>>

NextAlias == BuildAliasMap

SpecAlias == InitAlias /\ [][NextAlias]_vars

\* The primary name and the aliases of an actor.
KeysOf(g) == {g.name} \cup {g.aliases[i] : i \in DOMAIN g.aliases}

\* Every spelling of a string in upper and lower case letters.
RECURSIVE Spellings(_)
Spellings(k) ==
    IF k = <<>> THEN {<<>>}
    ELSE {<<c>> \o r : c \in {LowerChar(Head(k)), UpperChar(Head(k))},
                       r \in Spellings(Tail(k))}

\* Whether two strings are equal up to letter case.
SameKey(a, b) ==
    /\ Len(a) = Len(b)
    /\ \A i \in DOMAIN a : b[i] \in {LowerChar(a[i]), UpperChar(a[i])}

\* C6: looking up, as to_timeline_events does (alias_map.get(s.lower())),
\* any spelling of the primary name or of an alias of any actor of the list
\* returns the last actor of the list that has the key, up to letter case,
\* as its name or as an alias: that actor itself unless a later one has it.
C6_LastClaimantWins ==
    alias_map # Nothing =>
        \A i \in DOMAIN CACHE.groups :
            \A k \in KeysOf(CACHE.groups[i]) :
                LET last == Max({j \in DOMAIN CACHE.groups :
                                    \E k2 \in KeysOf(CACHE.groups[j]) : SameKey(k, k2)})
                IN  \A q \in Spellings(k) :
                        AliasGet(alias_map.idx, Lower(q)) = CACHE.groups[last]

\* C6's case: the map is built from a list in which a later actor has, in
\* another spelling, a key of an earlier and different actor.
C6_Witness ==
    /\ alias_map # Nothing
    /\ \E i, j \in DOMAIN CACHE.groups :
          /\ i < j
          /\ CACHE.groups[i] # CACHE.groups[j]
          /\ \E k \in KeysOf(CACHE.groups[i]), k2 \in KeysOf(CACHE.groups[j]) :
                k # k2 /\ SameKey(k, k2)

\* ------------------------------ /timeline by actor and country: SpecAttribution

Digits == <<"1", "2", "3", "4", "5", "6", "7", "8", "9">>

\* The i-th Campaign of CACHE.campaigns: load_mitre_campaigns_with_groups
\* yields one Campaign for each id, here with a name of its own.
CachedCampaign(i, group, first_seen, last_seen) ==
    [id |-> CampaignId(i), name |-> <<"c", Digits[i]>>, description |-> None,
     first_seen |-> first_seen, last_seen |-> last_seen, sources |-> <<>>,
     group |-> group, mitre_url |-> None]

\* The `group` of a cached campaign: None, the name of an actor, an alias.
CampaignGroups == {None, Lower(APT), Bear}

AttributedCampaigns ==
    UNION {{[i \in 1..n |-> CachedCampaign(i, g[i], Nothing, Nothing)] :
               g \in [1..n -> CampaignGroups]} : n \in 0..MaxCampaigns}

AttributionQueries ==
    {Query(g, c, Nothing, Nothing, DefaultLimit, "date_desc") :
        g \in {None, APT, Bear}, c \in {None, UNKNOWN, Lower(RU)}}

\* The catalog may also hold actors that go by "Unknown".
AttributionCatalog ==
    Catalog \cup {Group(UNKNOWN, RU, <<>>), Group(APT, None, <<Lower(UNKNOWN)>>)}

InitAttribution ==
    /\ \E groups \in SeqsUpTo(AttributionCatalog, MaxGroups) :
          \E campaigns \in AttributedCampaigns : Quiet(groups, campaigns)
    /\ bundle = <<>>
    /\ loaded = Nothing
    /\ alias_map = Nothing

\* One query is answered over each cache.
NextAttribution == \E q \in AttributionQueries : request = Nothing /\ GetTimeline(q)

SpecAttribution == InitAttribution /\ [][NextAttribution]_vars

\* The campaigns of CACHE whose events a response holds.
Returned == {response[i].campaign : i \in DOMAIN response}

\* The actor a group label resolves to, or Nothing.
ActorOf(label) == AliasGet(build_alias_map(CACHE.groups), Lower(label))

\* C4: the event of a campaign with no attributed-to edge (its group is
\* None) has the actor label "Unknown" and the country "Unknown", whatever
\* the actor catalog holds.
C4_UnattributedIsUnknown ==
    (request # Nothing /\ request.group = None /\ request.country = None) =>
        \A i \in DOMAIN response :
            (\E c \in DOMAIN CACHE.campaigns :
                /\ CACHE.campaigns[c].name = response[i].campaign
                /\ CACHE.campaigns[c].group = None)
            => /\ response[i].group_name = UNKNOWN
               /\ response[i].country = UNKNOWN

\* C7: the query country="Unknown" with no other filter returns the events
\* of exactly the campaigns with no attribution and the campaigns whose
\* attributed actor has no country in the catalog.
C7_UnknownCountryIsUnion ==
    (request # Nothing /\ request.group = None /\ request.country = UNKNOWN) =>
        Returned =
            {CACHE.campaigns[c].name : c \in
                {c \in DOMAIN CACHE.campaigns :
                    \/ CACHE.campaigns[c].group = None
                    \/ ActorOf(CACHE.campaigns[c].group) = Nothing
                    \/ ~ Truthy(ActorOf(CACHE.campaigns[c].group).country)}}

\* C10: the query group=s with no other filter, s being the primary name or
\* an alias of an actor up to letter case, returns the events of the
\* campaigns attributed to that actor.
C10_GroupFilterMatchesAlias ==
    (request # Nothing /\ Truthy(request.group) /\ request.country = None
        /\ ActorOf(request.group) # Nothing) =>
        {CACHE.campaigns[c].name : c \in
            {c \in DOMAIN CACHE.campaigns :
                /\ CACHE.campaigns[c].group # None
                /\ ActorOf(CACHE.campaigns[c].group) = ActorOf(request.group)}}
            \subseteq Returned

\* ------------------------------------ /timeline by date: SpecDates

EarlyDay == <<1899, 12, 31>>

SpringDay == <<2021, 3, 5>>

AutumnDay == <<2021, 11, 2>>

\* February 30th.
NoDay == <<2021, 2, 30>>

\* The first_seen and the last_seen of the cached campaigns.
FirstSeen ==
    {Nothing, EmptyDate, Garbage, DateStr(NoDay),
     DateStr(EarlyDay), Timestamp(SpringDay), DateStr(AutumnDay)}

LastSeen == {Nothing, Timestamp(AutumnDay)}

DatedCampaigns ==
    UNION {{[i \in 1..n |-> CachedCampaign(i, None, f[i], l[i])] :
               f \in [1..n -> FirstSeen], l \in [1..n -> LastSeen]} :
           n \in 0..MaxCampaigns}

DateQueries ==
    {Query(None, None, from, to, limit, sort) :
        from \in {Nothing, EmptyDate, Garbage, Timestamp(AutumnDay),
                  DateStr(SpringDay), DateStr(AutumnDay)},
        to \in {Nothing, DateStr(NoDay), DateStr(EarlyDay), DateStr(SpringDay)},
        limit \in {1, DefaultLimit},
        sort \in {"date_asc", "date_desc"}}

InitDates ==
    /\ \E campaigns \in DatedCampaigns : Quiet(<<>>, campaigns)
    /\ bundle = <<>>
    /\ loaded = Nothing
    /\ alias_map = Nothing

\* One query is answered over each cache.
NextDates == \E q \in DateQueries : request = Nothing /\ GetTimeline(q)

SpecDates == InitDates /\ [][NextDates]_vars

\* The primaryDate of the event of the c-th cached campaign.
PrimaryDate(c) == to_timeline_events(CACHE.campaigns, CACHE.groups)[c].date

\* A bound that is a day of the calendar written YYYY-MM-DD.
WellFormed(bound) ==
    /\ bound \notin {Nothing, EmptyDate}
    /\ bound.kind = "date"
    /\ ValidYmd(bound.ymd)

\* The days of the calendar in their order.
DayNumber(ymd) == (ymd[1] * 12 + ymd[2]) * 31 + ymd[3]

\* C8: with no other filter and no truncation, the event of a campaign is
\* returned if and only if its primaryDate is absent, or is on or after the
\* lower bound and on or before the upper bound, an absent or malformed bound
\* constraining nothing.
C8_DateRangeFilter ==
    (request # Nothing /\ request.limit >= Len(CACHE.campaigns)) =>
        \A c \in DOMAIN CACHE.campaigns :
            CACHE.campaigns[c].name \in Returned
            <=> \/ PrimaryDate(c) = Nothing
                \/ /\ WellFormed(request.from_date) =>
                        DayNumber(PrimaryDate(c).ymd)
                            >= DayNumber(request.from_date.ymd)
                   /\ WellFormed(request.to_date) =>
                        DayNumber(PrimaryDate(c).ymd)
                            <= DayNumber(request.to_date.ymd)

\* C8's case: a query with a well-formed lower bound returned the event
\* dated on that very day and dropped another campaign's event.
C8_Witness ==
    /\ request # Nothing
    /\ request.limit >= Len(CACHE.campaigns)
    /\ WellFormed(request.from_date)
    /\ \E i \in DOMAIN response :
          /\ response[i].date # Nothing
          /\ response[i].date.ymd = request.from_date.ymd
    /\ \E c \in DOMAIN CACHE.campaigns : CACHE.campaigns[c].name \notin Returned

\* C9: in the response, under date_asc every event with no date comes before
\* every dated event, under date_desc after every dated event, and the dated
\* events follow one another by primaryDate in the direction asked.
C9_UndatedFirstOrLast ==
    request # Nothing =>
        \A i, j \in DOMAIN response :
            i < j =>
                LET a == response[i].date
                    b == response[j].date
                IN  IF request.sort = "date_asc"
                    THEN /\ ~ (a # Nothing /\ b = Nothing)
                         /\ (a # Nothing /\ b # Nothing)
                                => DayNumber(a.ymd) <= DayNumber(b.ymd)
                    ELSE /\ ~ (a = Nothing /\ b # Nothing)
                         /\ (a # Nothing /\ b # Nothing)
                                => DayNumber(a.ymd) >= DayNumber(b.ymd)

====
